---- MODULE Spec2Model ----
(***************************************************************************)
(* PyFDD: the multi-site fit orchestrator (pyfdd/core/fitmanager.py,       *)
(* class FitManager), its parameter setters, and the parameter registry of *)
(* the fit object (PyFDD/fits.py, class fits).                             *)
(*                                                                         *)
(* The specifications share one state:                                     *)
(*   Spec     the orchestrator: set_pattern, run_fits, run_single_fit and  *)
(*            the steps of _single_fit;                                    *)
(*   SpecStop the orchestrator with stop_current_fit arriving at any time; *)
(*   SpecCfg  the manager's keyword setters;                               *)
(*   SpecMin  set_minimization_settings, for either cost function;         *)
(*   SpecPass _get_initial_values with and without pass_results;           *)
(*   SpecHelp the helpers that return a value: the normalization factor,   *)
(*            compute_initial_fit_values, is_datapattern_inrange;          *)
(*   SpecReg  the registry of fits: fix_parameters, set_patterns_to_fit,   *)
(*            set_scale_values, set_inicial_values, _get_p0, _get_p0_scale;*)
(*   SpecFit  the registry with the minimizers of fits;                    *)
(*   SpecEval the cost functions of fits.                                  *)
(*                                                                         *)
(* Python values are encoded as follows.  An attribute that is None or an *)
(* object is a sequence: << >> is None, <<x>> the object x (best_fit and   *)
(* last_fit hold 0 for None, else the index of the Fit in fits).  A        *)
(* pattern index is a record [kind, v]: kind "int" is the integer v, kind  *)
(* "float" a non-integer number, kind "seq1" a one-element sequence or     *)
(* array holding the integer v.  An exception is named by its class.       *)
(***************************************************************************)
EXTENDS Integers, Sequences, FiniteSets

VARIABLES
    \* ---- FitManager (fitmanager.py)
    n_sites,           \* self._n_sites
    dp_pattern,        \* self.dp_pattern: "None", or a pattern "in" / "out" of the simulated range
    min_value,         \* self.min_value: << >> (None) or <<cost>>
    best_fit,          \* self.best_fit: 0 (None) or the index in fits of the Fit object
    last_fit,          \* self.last_fit
    current_fit_obj,   \* self.current_fit_obj: << >> (None) or <<the Fit being processed>>
    fits,              \* the Fit objects whose _single_fit ran to its end, oldest first
    df_horizontal,     \* self.df_horizontal, a sequence of rows
    df_vertical,       \* self.df_vertical
    pc,                \* "idle", or inside run_fits / run_single_fit: "sweep", "fitting"
    queue,             \* the site selections recursive_call has still to visit
    call,              \* the entry call in progress or last made: [op, args, get_errors]
    result,            \* how that call ended for its caller: "running", "returned" or the exception raised
    passed,            \* the site selections that call has passed to _single_fit, in order
    raised,            \* the exception that call's try block caught, "none" if none
    hess,              \* the outcome of that call's last Hessian inversion, "none" if none
    attempted,         \* selections that passed _single_fit's checks since construction
    \* ---- FitManager settings (fitmanager.py 211-266)
    p_initial_values,  \* self.p_initial_values
    p_fixed_values,    \* self.p_fixed_values
    _bounds,           \* self._bounds
    _scale,            \* self._scale
    _cost_function,        \* self._cost_function
    _minimization_method,  \* self._minimization_method
    _fit_options_profile,  \* self._fit_options_profile
    _fit_options,          \* self._fit_options
    \* ---- fits registry (fits.py)
    parameters_dict,   \* self.parameters_dict
    results,           \* self.results: << >> (None) or <<[x]>>, the minimizer's result
    minimize_args,     \* what the last call handed to op.minimize and got back, << >> if nothing
    evaluation,        \* what the last call handed to gen.make_pattern and got back, << >> if nothing
    \* ---- FitManager helpers that return a value
    returned           \* << >>, or <<what the last helper call returned>>

mgr_vars == <<n_sites, dp_pattern, min_value, best_fit, last_fit, current_fit_obj, fits,
              df_horizontal, df_vertical, pc, queue, passed, raised, hess, attempted>>
min_vars == <<_cost_function, _minimization_method, _fit_options_profile, _fit_options>>
cfg_vars == <<p_initial_values, p_fixed_values, _bounds, _scale, min_vars>>
reg_vars == <<parameters_dict, results, minimize_args, evaluation>>
vars == <<mgr_vars, cfg_vars, reg_vars, call, result, returned>>

(***************************************************************************)
(* Bounds of the model.                                                    *)
(***************************************************************************)
MaxAttempts == 3   \* selections that may pass _single_fit's checks in one behaviour
MaxCost == 2       \* cost values range over 1..MaxCost
NSites == {1, 2}   \* the values of n_sites
ArgCounts == 0..2  \* run_fits and run_single_fit take this many arguments

None == << >>
Some(x) == <<x>>

PyInt(n) == [kind |-> "int", v |-> n]
PyFloat(n) == [kind |-> "float", v |-> n]
PySeq1(n) == [kind |-> "seq1", v |-> n]

\* isinstance(s, (int, np.integer))
IsInt(s) == s.kind = "int"

\* Candidate lists of run_fits after np.atleast_1d(np.array(ar)): an array has one
\* dtype, so its elements are all integers or all non-integers.
CandLists == {<<PyInt(1)>>, <<PyInt(2), PyInt(1)>>, <<PyFloat(1)>>}
\* Arguments of run_single_fit.
SingleArgs == {PyInt(1), PyFloat(1), PySeq1(2)}
Costs == 1..MaxCost

SeqsOf(S, lens) == UNION {[1..k -> S] : k \in lens}

(***************************************************************************)
(* FitManager: the orchestrator.                                           *)
(***************************************************************************)

\* The selections recursive_call visits, in the order it visits them: for each
\* candidate s of the first list, in list order, the visits of the remaining lists
\* with s appended; _single_fit(sites) when no list is left.
RECURSIVE recursive_call(_, _)
RECURSIVE recursive_call_for(_, _, _)
recursive_call(patterns_list, sites) ==
    IF Len(patterns_list) > 0
    THEN recursive_call_for(patterns_list, sites, 1)
    ELSE <<sites>>
recursive_call_for(patterns_list, sites, i) ==
    IF i > Len(patterns_list[1])
    THEN << >>
    ELSE recursive_call(Tail(patterns_list), Append(sites, patterns_list[1][i]))
         \o recursive_call_for(patterns_list, sites, i + 1)

\* is_datapattern_inrange() on a pattern that is set.
is_datapattern_inrange == dp_pattern = "in"

\* An except clause that drops the exception and leaves the handle as it is.
except_without_reset(exc) ==
    /\ raised' = exc
    /\ queue' = << >>
    /\ pc' = "idle"
    /\ result' = "returned"
    /\ UNCHANGED current_fit_obj

\* The bare "except:" of run_fits and of run_single_fit: the exception is dropped,
\* the handle is reset and the call returns normally; nothing is visited after it.
except_reset(exc) ==
    /\ current_fit_obj' = None
    /\ raised' = exc
    /\ queue' = << >>
    /\ pc' = "idle"
    /\ result' = "returned"

\* A call that raises to its caller before it touches any attribute.
raise_to_caller(exc) ==
    /\ result' = exc
    /\ UNCHANGED <<current_fit_obj, queue, pc>>

\* The try block is entered with the selections still to visit.
enter_try(selections) ==
    /\ queue' = selections
    /\ UNCHANGED current_fit_obj
    /\ IF selections = << >>
       THEN pc' = "idle" /\ result' = "returned"
       ELSE pc' = "sweep" /\ result' = "running"

set_pattern(d) ==
    /\ pc = "idle"
    /\ dp_pattern' = d
    /\ call' = [op |-> "set_pattern", args |-> << >>, get_errors |-> FALSE]
    /\ result' = "returned"
    /\ passed' = << >> /\ raised' = "none" /\ hess' = "none"
    /\ UNCHANGED <<n_sites, min_value, best_fit, last_fit, current_fit_obj, fits,
                   df_horizontal, df_vertical, pc, queue, attempted>>
    /\ UNCHANGED <<cfg_vars, reg_vars, returned>>

run_fits(args, get_errors) ==
    /\ pc = "idle"
    /\ attempted + Len(recursive_call(args, << >>)) <= MaxAttempts
    /\ call' = [op |-> "run_fits", args |-> args, get_errors |-> get_errors]
    /\ passed' = << >> /\ raised' = "none" /\ hess' = "none"
    /\ IF dp_pattern = "None"
       THEN raise_to_caller("AttributeError")
       ELSE IF ~is_datapattern_inrange
       THEN raise_to_caller("ValueError")
       ELSE IF ~(Len(args) >= 1)
       THEN raise_to_caller("AssertionError")
       ELSE enter_try(recursive_call(args, << >>))
    /\ UNCHANGED <<n_sites, dp_pattern, min_value, best_fit, last_fit, fits,
                   df_horizontal, df_vertical, attempted>>
    /\ UNCHANGED <<cfg_vars, reg_vars, returned>>

\* The loop of run_single_fit over its arguments: a one-element sequence becomes
\* its element.
unwrap(a) == IF a.kind = "seq1" THEN PyInt(a.v) ELSE a

run_single_fit(args, get_errors) ==
    /\ pc = "idle"
    /\ attempted + 1 <= MaxAttempts
    /\ call' = [op |-> "run_single_fit", args |-> args, get_errors |-> get_errors]
    /\ passed' = << >> /\ raised' = "none" /\ hess' = "none"
    /\ IF dp_pattern = "None"
       THEN raise_to_caller("AttributeError")
       ELSE IF \E i \in 1..Len(args) : ~IsInt(unwrap(args[i]))
       THEN raise_to_caller("ValueError")
       ELSE enter_try(<<[i \in 1..Len(args) |-> unwrap(args[i])]>>)
    /\ UNCHANGED <<n_sites, dp_pattern, min_value, best_fit, last_fit, fits,
                   df_horizontal, df_vertical, attempted>>
    /\ UNCHANGED <<cfg_vars, reg_vars, returned>>

\* _single_fit's checks of its selection (lines 610-624).
sites_valid(sites) ==
    /\ \A i \in 1..Len(sites) : IsInt(sites[i])
    /\ Len(sites) = n_sites

\* _single_fit up to the assignment of current_fit_obj (lines 610-631).
single_fit_build ==
    /\ pc = "sweep"
    /\ LET sites == Head(queue) IN
       /\ passed' = Append(passed, sites)
       /\ IF ~sites_valid(sites)
          THEN /\ except_reset("ValueError")
               /\ UNCHANGED attempted
          ELSE /\ attempted' = attempted + 1
               /\ \/ except_reset("Exception")     \* _build_fits_obj raises
                  \/ /\ current_fit_obj' = Some([sites |-> sites, stopped |-> FALSE])
                     /\ pc' = "fitting"
                     /\ UNCHANGED <<queue, raised, result>>
    /\ UNCHANGED <<n_sites, dp_pattern, min_value, best_fit, last_fit, fits,
                   df_horizontal, df_vertical, hess, call>>
    /\ UNCHANGED <<cfg_vars, reg_vars, returned>>

\* The row _fill_horizontal_results_dict appends: the fit's columns once (of
\* which the model keeps the cost, 'value'), then the columns of each of the
\* n_sites sites (of which it keeps the pattern index, 'p<i>').
horizontal_row(ft) ==
    [value |-> Some(ft.fun),
     p |-> [i \in 1..n_sites |-> ft.sites[i].v]]

\* The rows _fill_vertical_results_dict appends: main_columns is a frame of one
\* row, the site columns a frame of n_sites rows, and pd.concat(axis=1) joins them
\* on the row index, so the fit's columns are filled in the first row only and
\* are missing (NaN, here None) in the others.
vertical_rows(ft) ==
    [i \in 1..n_sites |->
        [value |-> IF i = 1 THEN Some(ft.fun) ELSE None,
         p |-> ft.sites[i].v]]

\* is_new_best with a comparison that also accepts an equal cost.
is_new_best_or_equal(fun) ==
    IF min_value = None THEN TRUE ELSE fun <= min_value[1]

\* is_new_best with the comparison turned round.
is_new_best_reversed(fun) ==
    IF min_value = None THEN TRUE ELSE fun > min_value[1]

\* "Keep best fit" (lines 650-656): whether the new fit replaces best_fit.
is_new_best(fun) ==
    IF min_value = None THEN TRUE ELSE fun < min_value[1]

\* _single_fit from minimize_cost_function to its end (lines 639-661).  With
\* get_errors the Hessian is inverted (fits.py 505-513): np.linalg.inv raises
\* LinAlgError on a singular matrix ("singular"); a negative diagonal entry of
\* the inverse ("negdiag") makes np.sqrt return NaN, which is stored as the
\* parameter's error without any exception.
single_fit_finish ==
    /\ pc = "fitting"
    /\ \/ /\ except_reset("Exception")             \* minimize_cost_function raises
          /\ UNCHANGED <<min_value, best_fit, last_fit, fits, df_horizontal, df_vertical,
                         hess>>
       \/ \E fun \in Costs :
          \E h \in IF call.get_errors THEN {"ok", "singular", "negdiag"} ELSE {"none"} :
             /\ hess' = h
             /\ IF h = "singular"
                THEN /\ except_reset("LinAlgError")
                     /\ UNCHANGED <<min_value, best_fit, last_fit, fits, df_horizontal,
                                    df_vertical>>
                ELSE LET ft == [sites |-> current_fit_obj[1].sites, fun |-> fun,
                                stopped |-> current_fit_obj[1].stopped]
                     IN \/ /\ except_reset("Exception")   \* a library lookup of the fill raises
                           /\ UNCHANGED <<min_value, best_fit, last_fit, fits,
                                          df_horizontal, df_vertical>>
                        \/ /\ fits' = Append(fits, ft)
                           /\ df_horizontal' =
                                  Append(df_horizontal, horizontal_row(ft))
                           /\ df_vertical' = df_vertical \o vertical_rows(ft)
                           /\ IF is_new_best(fun)
                              THEN best_fit' = Len(fits) + 1 /\ min_value' = Some(fun)
                              ELSE UNCHANGED <<best_fit, min_value>>
                           /\ last_fit' = Len(fits) + 1
                           /\ current_fit_obj' = None
                           /\ queue' = Tail(queue)
                           /\ UNCHANGED raised
                           /\ IF Tail(queue) = << >>
                              THEN pc' = "idle" /\ result' = "returned"
                              ELSE pc' = "sweep" /\ UNCHANGED result
    /\ UNCHANGED <<n_sites, dp_pattern, passed, attempted, call>>
    /\ UNCHANGED <<cfg_vars, reg_vars, returned>>

\* Fit.stop_current_fit(): the Fit raises its cooperative cancellation flag,
\* which its pattern generator checks during generation.
fit_stop_current_fit(ft) == [ft EXCEPT !.stopped = TRUE]

\* The handle after a stop request that reaches a Fit whether or not one is
\* current.
stop_requested_always(obj) ==
    IF obj # None THEN Some(fit_stop_current_fit(obj[1]))
    ELSE Some(fit_stop_current_fit([sites |-> << >>, stopped |-> FALSE]))

\* The handle after stop_current_fit: the request is passed on to the Fit that
\* is current; without one nothing is done.
stop_requested(obj) ==
    IF obj # None THEN Some(fit_stop_current_fit(obj[1])) ELSE None

\* stop_current_fit(), called between two calls or, from another thread, while
\* run_fits or run_single_fit is at work.
stop_current_fit ==
    /\ current_fit_obj' = stop_requested(current_fit_obj)
    /\ IF pc = "idle"
       THEN /\ call' = [op |-> "stop_current_fit", args |-> << >>, get_errors |-> FALSE]
            /\ result' = "returned"
       ELSE UNCHANGED <<call, result>>
    /\ UNCHANGED <<n_sites, dp_pattern, min_value, best_fit, last_fit, fits, df_horizontal,
                   df_vertical, pc, queue, passed, raised, hess, attempted>>
    /\ UNCHANGED <<cfg_vars, reg_vars, returned>>

(***************************************************************************)
(* The manager's parameter settings (fitmanager.py, __init__ and the four  *)
(* setters).  A dict is a function on the set of its keys.  Scales are in  *)
(* thousandths, bounds in hundredths.                                      *)
(***************************************************************************)

KwargCounts == 1..2     \* a setter call gives this many keywords

fraction_key(i) ==
    <<"f_p1", "f_p2", "f_p3", "f_p4", "f_p5", "f_p6", "f_p7", "f_p8", "f_p9", "f_p10">>[i]

\* self.parameter_keys as __init__ builds it (lines 96-100).
parameter_keys ==
    <<"dx", "dy", "phi", "total_cts", "sigma">> \o [i \in 1..n_sites |-> fraction_key(i)]

KeySet(keys) == {keys[i] : i \in 1..Len(keys)}

EmptyDict == [k \in {} |-> 0]
DictSet(d, key, val) ==
    [k \in (DOMAIN d) \cup {key} |-> IF k = key THEN val ELSE d[k]]

PyTuple(items) == [type |-> "tuple", items |-> items]
PyList(items) == [type |-> "list", items |-> items]

\* FitManager.default_scale with 'f_px' spread over the fraction keys.
default_scale ==
    [k \in KeySet(parameter_keys) |->
        CASE k \in {"dx", "dy", "total_cts"} -> 10
          [] k = "phi" -> 100
          [] k = "sigma" -> 1
          [] OTHER -> 10]

\* FitManager.default_bounds with 'f_px' spread over the fraction keys.
default_bounds ==
    [k \in KeySet(parameter_keys) |->
        CASE k \in {"dx", "dy"} -> PyTuple(<<Some(-300), Some(300)>>)
          [] k = "phi" -> PyTuple(<<None, None>>)
          [] k = "total_cts" -> PyTuple(<<Some(100), None>>)
          [] k = "sigma" -> PyTuple(<<Some(1), None>>)
          [] OTHER -> PyTuple(<<Some(0), Some(100)>>)]

\* The keywords and values the setters are called with.
KwKeys == {"dx", "f_p2", "foo"}
InitialValues == {5}
ScaleValues == {0, 20}
BoundsValues == {PyTuple(<<Some(0), Some(50)>>), PyList(<<Some(0), Some(50)>>),
                 PyTuple(<<Some(0)>>)}
Kwargs(values) ==
    {kw \in SeqsOf(KwKeys \X values, KwargCounts) :
        \A i, j \in 1..Len(kw) : i # j => kw[i][1] # kw[j][1]}

Setters == {"set_initial_values", "set_fixed_values", "set_bounds", "set_step_modifier"}

\* The loop "for key in kwargs.keys()" of the setter named: the dict with the
\* keys stored before the loop ended, and how the call ended.
RECURSIVE kwargs_loop(_, _, _)
kwargs_loop(d, kwargs, setter) ==
    IF kwargs = << >> THEN [dict |-> d, result |-> "returned"]
    ELSE LET key == Head(kwargs)[1]
             val == Head(kwargs)[2]
         IN IF key \in KeySet(parameter_keys)
            THEN IF setter = "set_bounds" /\ (val.type # "tuple" \/ Len(val.items) # 2)
                 THEN [dict |-> d, result |-> "ValueError"]
                 ELSE kwargs_loop(DictSet(d, key, val), Tail(kwargs), setter)
            ELSE \* set_initial_values raises the tuple (ValueError, message),
                 \* which Python 3 turns into a TypeError.
                 [dict |-> d,
                  result |-> IF setter = "set_initial_values" THEN "TypeError"
                             ELSE "ValueError"]

setter_call(setter, kwargs, r) ==
    /\ pc = "idle"
    /\ call' = [op |-> setter, args |-> kwargs, get_errors |-> FALSE]
    /\ result' = r.result
    /\ UNCHANGED <<mgr_vars, reg_vars, returned>>

set_initial_values(kwargs) ==
    LET r == kwargs_loop(p_initial_values, kwargs, "set_initial_values")
    IN /\ setter_call("set_initial_values", kwargs, r)
       /\ p_initial_values' = r.dict
       /\ UNCHANGED <<p_fixed_values, _bounds, _scale, min_vars>>

set_fixed_values(kwargs) ==
    LET r == kwargs_loop(p_fixed_values, kwargs, "set_fixed_values")
    IN /\ setter_call("set_fixed_values", kwargs, r)
       /\ p_fixed_values' = r.dict
       /\ UNCHANGED <<p_initial_values, _bounds, _scale, min_vars>>

set_bounds(kwargs) ==
    LET r == kwargs_loop(_bounds, kwargs, "set_bounds")
    IN /\ setter_call("set_bounds", kwargs, r)
       /\ _bounds' = r.dict
       /\ UNCHANGED <<p_initial_values, p_fixed_values, _scale, min_vars>>

set_step_modifier(kwargs) ==
    LET r == kwargs_loop(_scale, kwargs, "set_step_modifier")
    IN /\ setter_call("set_step_modifier", kwargs, r)
       /\ _scale' = r.dict
       /\ UNCHANGED <<p_initial_values, p_fixed_values, _bounds, min_vars>>

(***************************************************************************)
(* The parameter registry of the fits class (PyFDD/fits.py).  An entry of  *)
(* parameters_dict keeps the fields 'p0', 'value', 'use', 'scale' and      *)
(* 'bounds' of the template; p0, value and bounds are in eighths, scale in *)
(* units.                                                                  *)
(***************************************************************************)

_parameters_order == <<"dx", "dy", "phi", "total_cts", "sigma", "f_p1", "f_p2", "f_p3">>
_pattern_keys == <<"pattern_1", "pattern_2", "pattern_3">>
ParameterSet == KeySet(_parameters_order)
FractionSet == {"f_p1", "f_p2", "f_p3"}

\* The pattern key a fraction key belongs to.
pattern_of(f) == IF f = "f_p1" THEN "pattern_1" ELSE IF f = "f_p2" THEN "pattern_2"
                 ELSE "pattern_3"

parameter_template ==
    [p0 |-> None, value |-> None, use |-> FALSE, scale |-> 1, bounds |-> <<None, None>>]

\* The defaults of set_inicial_values' keywords: 1, 1, 5, 1, 0, 0.25, 0.25, 0.25.
inicial_defaults ==
    [k \in ParameterSet |->
        CASE k \in {"dx", "dy", "total_cts"} -> 8
          [] k = "phi" -> 40
          [] k = "sigma" -> 0
          [] OTHER -> 2]

\* The keywords of a call: the defaults overridden by the keywords given.
with_defaults(defaults, kw) ==
    [k \in ParameterSet |-> IF k \in DOMAIN kw THEN kw[k] ELSE defaults[k]]

inicial_values_set(pd, kw) ==
    [k \in DOMAIN pd |->
        IF k \in ParameterSet
        THEN [pd[k] EXCEPT !.p0 = Some(with_defaults(inicial_defaults, kw)[k])]
        ELSE pd[k]]

scale_values_set(pd, kw) ==
    [k \in DOMAIN pd |->
        IF k \in ParameterSet
        THEN [pd[k] EXCEPT !.scale = with_defaults([q \in ParameterSet |-> 1], kw)[k]]
        ELSE pd[k]]

\* fix_parameters without the test of the pattern's 'use'.
parameters_fixed_any_site(pd, fix) ==
    [k \in DOMAIN pd |->
        IF k \in ParameterSet THEN [pd[k] EXCEPT !.use = ~fix[k]] ELSE pd[k]]

parameters_fixed(pd, fix) ==
    [k \in DOMAIN pd |->
        IF k \in FractionSet
        THEN [pd[k] EXCEPT !.use = IF pd[pattern_of(k)].use THEN ~fix[k] ELSE FALSE]
        ELSE IF k \in ParameterSet THEN [pd[k] EXCEPT !.use = ~fix[k]]
        ELSE pd[k]]

\* The defaults of set_bound_values' keywords: (-3, 3), (-3, 3), (None, None),
\* (0, None), (0, None), (0, 1), (0, 1), (0, 1).
bound_defaults ==
    [k \in ParameterSet |->
        CASE k \in {"dx", "dy"} -> <<Some(-24), Some(24)>>
          [] k = "phi" -> <<None, None>>
          [] k \in {"total_cts", "sigma"} -> <<Some(0), None>>
          [] OTHER -> <<Some(0), Some(8)>>]

bound_values_set(pd, kw) ==
    [k \in DOMAIN pd |->
        IF k \in ParameterSet
        THEN [pd[k] EXCEPT !.bounds = with_defaults(bound_defaults, kw)[k]]
        ELSE pd[k]]

\* The fix_parameters call of _init_parameters_dict.
init_fix == [k \in ParameterSet |-> k \in {"f_p2", "f_p3"}]

\* parameters_dict as _init_parameters_dict leaves it.
_init_parameters_dict ==
    LET template == [k \in ParameterSet \cup KeySet(_pattern_keys) |-> parameter_template]
        fixed == parameters_fixed(
                     bound_values_set(
                         scale_values_set(inicial_values_set(template, EmptyDict), EmptyDict),
                         EmptyDict),
                     init_fix)
    IN [k \in DOMAIN fixed |->
           IF k \in ParameterSet THEN fixed[k] ELSE [fixed[k] EXCEPT !.value = Some(0)]]

\* The loop of _get_p0_scale from position i of _parameters_order on.
RECURSIVE p0_scale_loop(_, _)
p0_scale_loop(pd, i) ==
    IF i > Len(_parameters_order) THEN << >>
    ELSE LET entry == pd[_parameters_order[i]]
         IN (IF entry.use THEN <<entry.scale>> ELSE << >>) \o p0_scale_loop(pd, i + 1)

\* _get_p0_scale without the test of 'use'.
_get_p0_scale_of_all ==
    [i \in 1..Len(_parameters_order) |-> parameters_dict[_parameters_order[i]].scale]

_get_p0_scale == p0_scale_loop(parameters_dict, 1)

\* The loop of _get_p0 from position i on, given the tuple built so far: the
\* division p0 / scale raises ZeroDivisionError for a scale of zero.
RECURSIVE p0_loop(_, _, _)
p0_loop(pd, i, p0) ==
    IF i > Len(_parameters_order) THEN [raised |-> "none", value |-> p0]
    ELSE LET entry == pd[_parameters_order[i]]
         IN IF ~entry.use THEN p0_loop(pd, i + 1, p0)
            ELSE IF entry.scale = 0 THEN [raised |-> "ZeroDivisionError", value |-> << >>]
            ELSE p0_loop(pd, i + 1, Append(p0, entry.p0[1] \div entry.scale))

_get_p0 == p0_loop(parameters_dict, 1, << >>)

\* The arguments the registry's operations are called with.
ToggleKeys == {"dx", "sigma", "f_p1", "f_p2"}
SelectablePatterns == {None, Some(1)}
RegScaleValues == {0, 2}
RegInicialValues == {16}
OneKeyword(values) ==
    {EmptyDict} \cup {DictSet(EmptyDict, k, v) : k \in {"dx", "f_p1"}, v \in values}

\* fix_parameters arguments that repeat the registry's flags (fixed = not use)
\* but for at most one of ToggleKeys, and the constructor's arguments.
FixRequests ==
    {fix \in [ParameterSet -> BOOLEAN] :
        \E t \in ToggleKeys :
            \A k \in ParameterSet \ {t} : fix[k] = ~parameters_dict[k].use}
    \cup {init_fix}

registry_call(op, args) ==
    /\ pc = "idle"
    /\ call' = [op |-> op, args |-> args, get_errors |-> FALSE]
    /\ result' = "returned"
    /\ minimize_args' = None
    /\ evaluation' = None
    /\ UNCHANGED results
    /\ UNCHANGED <<mgr_vars, cfg_vars, returned>>

set_inicial_values(kw) ==
    /\ registry_call("set_inicial_values", kw)
    /\ parameters_dict' = inicial_values_set(parameters_dict, kw)

set_scale_values(kw) ==
    /\ registry_call("set_scale_values", kw)
    /\ parameters_dict' = scale_values_set(parameters_dict, kw)

fix_parameters(fix) ==
    /\ fix \in FixRequests
    /\ registry_call("fix_parameters", fix)
    /\ parameters_dict' = parameters_fixed(parameters_dict, fix)

set_patterns_to_fit(p1_n, p2_n, p3_n) ==
    LET p_n == [pattern_1 |-> p1_n, pattern_2 |-> p2_n, pattern_3 |-> p3_n]
    IN /\ registry_call("set_patterns_to_fit", <<p1_n, p2_n, p3_n>>)
       /\ parameters_dict' =
              [k \in DOMAIN parameters_dict |->
                 IF k \in KeySet(_pattern_keys)
                 THEN IF p_n[k] # None
                      THEN [parameters_dict[k] EXCEPT !.value = p_n[k], !.use = TRUE]
                      ELSE [parameters_dict[k] EXCEPT !.use = FALSE]
                 ELSE IF k \in FractionSet
                 THEN [parameters_dict[k] EXCEPT !.use = p_n[pattern_of(k)] # None]
                 ELSE parameters_dict[k]]

(***************************************************************************)
(* The fits class: the minimizers (fits.py, minimize_chi2 and              *)
(* maximize_likelyhood).  scipy's op.minimize is outside the repository:   *)
(* it returns a vector of the length of p0 that lies within the bounds it  *)
(* was given; three such vectors are considered.                           *)
(***************************************************************************)

MinimizerOutcomes == {"start", "lower", "upper"}

\* v moved into the bounds b = (lo, hi), None being no bound.
clip(v, b) ==
    IF b[1] # None /\ v < b[1][1] THEN b[1][1]
    ELSE IF b[2] # None /\ v > b[2][1] THEN b[2][1]
    ELSE v

\* res['x'] of op.minimize(fun, p0, method='L-BFGS-B', bounds=bnds): the start
\* point moved into the bounds, or every bounded coordinate at its lower or at
\* its upper bound.
op_minimize(p0, bnds, outcome) ==
    [i \in 1..Len(p0) |->
        CASE outcome = "lower" /\ bnds[i][1] # None -> bnds[i][1][1]
          [] outcome = "upper" /\ bnds[i][2] # None -> bnds[i][2][1]
          [] OTHER -> clip(p0[i], bnds[i])]

\* The loop "Parameter bounds" from position i on: the configured bounds of the
\* free parameters, as stored.
RECURSIVE bnds_loop(_, _)
bnds_loop(pd, i) ==
    IF i > Len(_parameters_order) THEN << >>
    ELSE LET entry == pd[_parameters_order[i]]
         IN (IF entry.use THEN <<entry.bounds>> ELSE << >>) \o bnds_loop(pd, i + 1)

\* The loop "get patterns" from position i on.
RECURSIVE simulations_loop(_, _)
simulations_loop(pd, i) ==
    IF i > Len(_pattern_keys) THEN << >>
    ELSE LET entry == pd[_pattern_keys[i]]
         IN (IF entry.use THEN <<entry.value>> ELSE << >>) \o simulations_loop(pd, i + 1)

\* The write-back without the multiplication by the scale.
RECURSIVE write_back_unscaled(_, _, _, _)
write_back_unscaled(pd, x, i, di) ==
    IF i > Len(_parameters_order) THEN pd
    ELSE LET key == _parameters_order[i]
         IN IF pd[key].use
            THEN write_back_unscaled([pd EXCEPT ![key].value = Some(x[di])], x, i + 1, di + 1)
            ELSE write_back_unscaled([pd EXCEPT ![key].value = pd[key].p0], x, i + 1, di)

\* The loop after op.minimize from position i on, di counting the free
\* parameters passed: res['x'][di] times the scale is the value of a free
\* parameter, p0 the value of a fixed one.
RECURSIVE write_back(_, _, _, _)
write_back(pd, x, i, di) ==
    IF i > Len(_parameters_order) THEN pd
    ELSE LET key == _parameters_order[i]
         IN IF pd[key].use
            THEN write_back([pd EXCEPT ![key].value = Some(x[di] * pd[key].scale)],
                            x, i + 1, di + 1)
            ELSE write_back([pd EXCEPT ![key].value = pd[key].p0], x, i + 1, di)

\* res['x'] after the loop has multiplied it in place.
x_scaled(pd, x) == [di \in 1..Len(x) |-> x[di] * p0_scale_loop(pd, 1)[di]]

\* "total counts is not used in maximum likelyhood" left out.
total_cts_kept(pd) == pd

\* self.parameters_dict['total_cts']['use'] = False
total_cts_unused(pd) == [pd EXCEPT !["total_cts"].use = FALSE]

\* The body the two minimizers share, on the registry pd: _get_p0 may raise
\* before anything is handed to op.minimize.
minimize_with(pd, op, fun) ==
    /\ pc = "idle"
    /\ call' = [op |-> op, args |-> << >>, get_errors |-> FALSE]
    /\ evaluation' = None
    /\ LET p0 == p0_loop(pd, 1, << >>)
           bnds == bnds_loop(pd, 1)
       IN IF p0.raised # "none"
          THEN /\ result' = p0.raised
               /\ parameters_dict' = pd
               /\ minimize_args' = None
               /\ UNCHANGED results
          ELSE \E outcome \in MinimizerOutcomes :
                  LET x == op_minimize(p0.value, bnds, outcome)
                  IN /\ minimize_args' = Some([fun |-> fun, p0 |-> p0.value, bnds |-> bnds,
                                               simulations |-> simulations_loop(pd, 1),
                                               x |-> x])
                     /\ parameters_dict' = write_back(pd, x, 1, 1)
                     /\ results' = Some([x |-> x_scaled(pd, x)])
                     /\ result' = "returned"
    /\ UNCHANGED <<mgr_vars, cfg_vars, returned>>

minimize_chi2 == minimize_with(parameters_dict, "minimize_chi2", "chi_square_call")

maximize_likelyhood ==
    minimize_with(total_cts_unused(parameters_dict), "maximize_likelyhood",
                  "log_likelihood_call")

(***************************************************************************)
(* The fits class: the cost functions (fits.py, chi_square_call,           *)
(* chi_square, log_likelihood_call, log_likelihood).  The pattern          *)
(* generator is outside the repository: make_pattern returns some array of *)
(* cell values.  A float is [kind, twice]: kind "finite" with the value in *)
(* halves, or "inf" or "nan".                                              *)
(***************************************************************************)

\* The arrays self.data_pattern and gen.make_pattern(...) range over.
DataPatterns == {<<0, 2>>}
SimPatterns == {<<1, 2>>, <<0, 1>>, <<2, 0>>}
\* The reduced vectors a cost function is called with, for n free parameters.
ParamVectors(n) == {[i \in 1..n |-> i + 1]}

RECURSIVE SumSeq(_)
SumSeq(q) == IF q = << >> THEN 0 ELSE Head(q) + SumSeq(Tail(q))

\* np.ones(len(params))
ones(n) == [i \in 1..n |-> 1]

\* The loop that builds params_temp from position i on, di counting the free
\* parameters passed and ignoring p0_scale.
RECURSIVE params_temp_loop_unscaled(_, _, _, _)
params_temp_loop_unscaled(params, p0_scale, i, di) ==
    IF i > Len(_parameters_order) THEN << >>
    ELSE LET entry == parameters_dict[_parameters_order[i]]
         IN IF entry.use
            THEN <<params[di]>> \o params_temp_loop_unscaled(params, p0_scale, i + 1, di + 1)
            ELSE <<entry.p0[1]>> \o params_temp_loop_unscaled(params, p0_scale, i + 1, di)

\* The loop that builds params_temp from position i on, di counting the free
\* parameters passed.
RECURSIVE params_temp_loop(_, _, _, _)
params_temp_loop(params, p0_scale, i, di) ==
    IF i > Len(_parameters_order) THEN << >>
    ELSE LET entry == parameters_dict[_parameters_order[i]]
         IN IF entry.use
            THEN <<params[di] * p0_scale[di]>> \o params_temp_loop(params, p0_scale, i + 1, di + 1)
            ELSE <<entry.p0[1]>> \o params_temp_loop(params, p0_scale, i + 1, di)

\* params_temp and fractions_sims as chi_square_call and log_likelihood_call
\* build them.
unpacked(params, enable_scale) ==
    LET p0_scale == IF enable_scale THEN _get_p0_scale ELSE ones(Len(params))
        params_temp == params_temp_loop(params, p0_scale, 1, 1)
        picked(i) == IF parameters_dict[_pattern_keys[i]].use THEN <<params_temp[5 + i]>>
                     ELSE << >>
    IN [params_temp |-> params_temp,
        fractions_sims |-> picked(1) \o picked(2) \o picked(3)]

\* np.concatenate((rnd_events, fractions_sims)), one being 8 eighths.
fractions_of(fractions_sims) == <<8 - SumSeq(fractions_sims)>> \o fractions_sims

\* The sum of float terms: nan if a term is nan, else inf if one is inf.
float_sum(terms) ==
    IF \E c \in 1..Len(terms) : terms[c].kind = "nan" THEN [kind |-> "nan", twice |-> 0]
    ELSE IF \E c \in 1..Len(terms) : terms[c].kind = "inf" THEN [kind |-> "inf", twice |-> 0]
    ELSE [kind |-> "finite", twice |-> SumSeq([c \in 1..Len(terms) |-> terms[c].twice])]

abs(n) == IF n < 0 THEN -n ELSE n

\* np.sum((data_pattern - sim_pattern) ** 2 / np.abs(sim_pattern)): a cell whose
\* synthetic value is zero gives 0 / 0 = nan or x / 0 = inf.
chi2_sum(data_pattern, sim_pattern) ==
    float_sum([c \in 1..Len(sim_pattern) |->
        LET delta2 == (data_pattern[c] - sim_pattern[c]) * (data_pattern[c] - sim_pattern[c])
        IN IF sim_pattern[c] = 0
           THEN [kind |-> IF delta2 = 0 THEN "nan" ELSE "inf", twice |-> 0]
           ELSE [kind |-> "finite", twice |-> (2 * delta2) \div abs(sim_pattern[c])]])

\* -np.sum(data_pattern * np.log(sim_pattern)), the finite value not computed:
\* log(0) is -inf, and 0 * -inf is nan.
minus_ll_sum(data_pattern, sim_pattern) ==
    float_sum([c \in 1..Len(sim_pattern) |->
        IF sim_pattern[c] = 0
        THEN [kind |-> IF data_pattern[c] = 0 THEN "nan" ELSE "inf", twice |-> 0]
        ELSE [kind |-> "finite", twice |-> 0]])

cost_call(op, params, enable_scale) ==
    /\ pc = "idle"
    /\ call' = [op |-> op, args |-> <<params, enable_scale>>, get_errors |-> FALSE]
    /\ result' = "returned"
    /\ minimize_args' = None
    /\ UNCHANGED <<parameters_dict, results>>
    /\ UNCHANGED <<mgr_vars, cfg_vars, returned>>

\* chi_square_call and the chi_square it calls.
chi_square_call(params, enable_scale) ==
    /\ cost_call("chi_square_call", params, enable_scale)
    /\ \E data_pattern \in DataPatterns, sim_pattern \in SimPatterns :
          LET u == unpacked(params, enable_scale)
          IN evaluation' = Some(
                 [params_temp |-> u.params_temp,
                  make_pattern |-> [dx |-> u.params_temp[1], dy |-> u.params_temp[2],
                                    phi |-> u.params_temp[3],
                                    fractions |-> fractions_of(u.fractions_sims),
                                    total_events |-> u.params_temp[4],
                                    sigma |-> u.params_temp[5]],
                  data_pattern |-> data_pattern,
                  sim_pattern |-> sim_pattern,
                  value |-> chi2_sum(data_pattern, sim_pattern)])

\* log_likelihood_call and the log_likelihood it calls.
log_likelihood_call(params, enable_scale) ==
    /\ cost_call("log_likelihood_call", params, enable_scale)
    /\ \E data_pattern \in DataPatterns, sim_pattern \in SimPatterns :
          LET u == unpacked(params, enable_scale)
          IN evaluation' = Some(
                 [params_temp |-> u.params_temp,
                  make_pattern |-> [dx |-> u.params_temp[1], dy |-> u.params_temp[2],
                                    phi |-> u.params_temp[3],
                                    fractions |-> fractions_of(u.fractions_sims),
                                    total_events |-> 1,
                                    sigma |-> u.params_temp[5]],
                  data_pattern |-> data_pattern,
                  sim_pattern |-> sim_pattern,
                  value |-> minus_ll_sum(data_pattern, sim_pattern)])

(***************************************************************************)
(* FitManager: the normalization factor of a pattern (fitmanager.py,       *)
(* _get_sim_normalization_factor).  A number is [kind, num, den]: kind     *)
(* "finite" with the value num / den in lowest terms, or "inf" or "nan".   *)
(***************************************************************************)

\* The arguments of _get_sim_normalization_factor and the sums it computes.
Normalizations == {None, Some("counts"), Some("yield"), Some("probability"), Some("max")}
PatternTypes == {"chi2", "ml", "data"}
FitObjs == {None, Some("Fit")}
TotalCounts == {0, 2, 4}
TotalYields == {0, 2, 3}

RECURSIVE gcd(_, _)
gcd(a, b) == IF b = 0 THEN a ELSE gcd(b, a % b)

number(n) == [kind |-> "finite", num |-> n, den |-> 1]

\* a / b of two numpy scalars: a zero divisor gives inf, or nan for 0 / 0, with
\* a warning and no exception.
np_divide(a, b) ==
    IF b = 0 THEN [kind |-> IF a = 0 THEN "nan" ELSE "inf", num |-> 0, den |-> 1]
    ELSE [kind |-> "finite", num |-> a \div gcd(a, b), den |-> b \div gcd(a, b)]

\* The if chain with the branches of 'chi2' / 'data' and of 'ml' exchanged.
norm_factor_of_swapped(normalization, pattern_type, total_counts, total_yield) ==
    LET is_ml == pattern_type = "chi2" \/ pattern_type = "data"
        is_chi2_or_data == pattern_type = "ml"
    IN IF normalization = None
       THEN [raised |-> "none", norm_factor |-> Some(number(1))]
       ELSE IF normalization = Some("counts")
       THEN [raised |-> "none",
             norm_factor |-> IF is_chi2_or_data THEN Some(number(1))
                             ELSE IF is_ml THEN Some(number(total_counts))
                             ELSE None]
       ELSE IF normalization = Some("yield")
       THEN IF total_yield = None
            THEN [raised |-> "ValueError", norm_factor |-> None]
            ELSE [raised |-> "none",
                  norm_factor |-> IF is_chi2_or_data
                                  THEN Some(np_divide(total_yield[1], total_counts))
                                  ELSE IF is_ml THEN Some(number(total_yield[1]))
                                  ELSE None]
       ELSE IF normalization = Some("probability")
       THEN [raised |-> "none",
             norm_factor |-> IF is_chi2_or_data THEN Some(np_divide(1, total_counts))
                             ELSE IF is_ml THEN Some(number(1))
                             ELSE None]
       ELSE [raised |-> "ValueError", norm_factor |-> None]

\* The if chain of _get_sim_normalization_factor: what it raises and the
\* norm_factor it holds at its end.
norm_factor_of(normalization, pattern_type, total_counts, total_yield) ==
    LET is_chi2_or_data == pattern_type = "chi2" \/ pattern_type = "data"
        is_ml == pattern_type = "ml"
    IN IF normalization = None
       THEN [raised |-> "none", norm_factor |-> Some(number(1))]
       ELSE IF normalization = Some("counts")
       THEN [raised |-> "none",
             norm_factor |-> IF is_chi2_or_data THEN Some(number(1))
                             ELSE IF is_ml THEN Some(number(total_counts))
                             ELSE None]
       ELSE IF normalization = Some("yield")
       THEN IF total_yield = None
            THEN [raised |-> "ValueError", norm_factor |-> None]
            ELSE [raised |-> "none",
                  norm_factor |-> IF is_chi2_or_data
                                  THEN Some(np_divide(total_yield[1], total_counts))
                                  ELSE IF is_ml THEN Some(number(total_yield[1]))
                                  ELSE None]
       ELSE IF normalization = Some("probability")
       THEN [raised |-> "none",
             norm_factor |-> IF is_chi2_or_data THEN Some(np_divide(1, total_counts))
                             ELSE IF is_ml THEN Some(number(1))
                             ELSE None]
       ELSE [raised |-> "ValueError", norm_factor |-> None]

\* _get_sim_normalization_factor(normalization, pattern_type, fit_obj): the
\* counts are summed over the data pattern, the yield over the pattern
\* simulated from fit_obj.
_get_sim_normalization_factor(normalization, pattern_type, fit_obj) ==
    /\ pc = "idle"
    /\ call' = [op |-> "_get_sim_normalization_factor",
                args |-> <<normalization, pattern_type, fit_obj>>, get_errors |-> FALSE]
    /\ IF dp_pattern = "None"
       THEN result' = "AttributeError" /\ returned' = None
       ELSE \E total_counts \in TotalCounts, yield \in TotalYields :
               LET total_yield == IF fit_obj = None THEN None ELSE Some(yield)
                   r == norm_factor_of(normalization, pattern_type, total_counts, total_yield)
               IN IF r.raised # "none"
                  THEN result' = r.raised /\ returned' = None
                  ELSE /\ result' = "returned"
                       /\ returned' = Some([norm_factor |-> r.norm_factor,
                                            total_counts |-> total_counts,
                                            total_yield |-> total_yield])
    /\ UNCHANGED <<mgr_vars, cfg_vars, reg_vars>>

(***************************************************************************)
(* FitManager: the initial values of a fit (fitmanager.py,                 *)
(* compute_initial_fit_values).  Values are in units of 1e-5.              *)
(***************************************************************************)

\* The DataPattern the defaults are read from: center, angle and the sum of
\* pattern_matrix.
datapattern == [center |-> <<100, 200>>, angle |-> 300, counts |-> 4000]

\* The dicts p_fixed_values and p_initial_values range over: any keys of
\* HelperKeys, "f_p3" being no parameter key of a manager of one or two sites.
HelperKeys == {"dx", "total_cts", "f_p1", "f_p3"}
FixedDicts == UNION {[ks -> {7}] : ks \in SUBSET HelperKeys}
InitialDicts == UNION {[ks -> {5}] : ks \in SUBSET HelperKeys}

min(a, b) == IF a <= b THEN a ELSE b

\* FitManager.compute_parameter_keys(n_sites)
compute_parameter_keys(n) ==
    <<"dx", "dy", "phi", "total_cts", "sigma">> \o [i \in 1..n |-> fraction_key(i)]

\* The branch "Use FitManager choice" with 0.15 for a fraction whatever the
\* number of sites.
fit_manager_choice_flat(key, n) ==
    CASE key = "dx" -> [p0 |-> datapattern.center[1], p_fix |-> FALSE]
      [] key = "dy" -> [p0 |-> datapattern.center[2], p_fix |-> FALSE]
      [] key = "phi" -> [p0 |-> datapattern.angle, p_fix |-> FALSE]
      [] key = "total_cts" -> [p0 |-> datapattern.counts, p_fix |-> TRUE]
      [] key = "sigma" -> [p0 |-> 10000, p_fix |-> TRUE]
      [] OTHER -> [p0 |-> 15000, p_fix |-> FALSE]

\* The branch "Use FitManager choice" for one key.
fit_manager_choice(key, n) ==
    CASE key = "dx" -> [p0 |-> datapattern.center[1], p_fix |-> FALSE]
      [] key = "dy" -> [p0 |-> datapattern.center[2], p_fix |-> FALSE]
      [] key = "phi" -> [p0 |-> datapattern.angle, p_fix |-> FALSE]
      [] key = "total_cts" -> [p0 |-> datapattern.counts, p_fix |-> TRUE]
      [] key = "sigma" -> [p0 |-> 10000, p_fix |-> TRUE]
      [] OTHER -> [p0 |-> min(15000, 50000 \div n), p_fix |-> FALSE]

\* The loop over parameter_keys with the user's initial value looked up before
\* the fixed one.
RECURSIVE initial_fit_values_loop_initial_first(_, _, _, _)
initial_fit_values_loop_initial_first(keys, n, fixed, initial) ==
    IF keys = << >> THEN [p0 |-> << >>, p_fix |-> << >>]
    ELSE LET key == Head(keys)
             rest == initial_fit_values_loop_initial_first(Tail(keys), n, fixed, initial)
             this == IF key \in DOMAIN initial THEN [p0 |-> initial[key], p_fix |-> FALSE]
                     ELSE IF key \in DOMAIN fixed THEN [p0 |-> fixed[key], p_fix |-> TRUE]
                     ELSE fit_manager_choice(key, n)
         IN [p0 |-> <<this.p0>> \o rest.p0, p_fix |-> <<this.p_fix>> \o rest.p_fix]

\* The loop over parameter_keys that builds p0 and p_fix.
RECURSIVE initial_fit_values_loop(_, _, _, _)
initial_fit_values_loop(keys, n, fixed, initial) ==
    IF keys = << >> THEN [p0 |-> << >>, p_fix |-> << >>]
    ELSE LET key == Head(keys)
             rest == initial_fit_values_loop(Tail(keys), n, fixed, initial)
             this == IF key \in DOMAIN fixed THEN [p0 |-> fixed[key], p_fix |-> TRUE]
                     ELSE IF key \in DOMAIN initial THEN [p0 |-> initial[key], p_fix |-> FALSE]
                     ELSE fit_manager_choice(key, n)
         IN [p0 |-> <<this.p0>> \o rest.p0, p_fix |-> <<this.p_fix>> \o rest.p_fix]

\* FitManager.compute_initial_fit_values(datapattern, n_sites, fixed, initial),
\* called for the manager's number of sites.
compute_initial_fit_values(fixed, initial) ==
    /\ pc = "idle"
    /\ call' = [op |-> "compute_initial_fit_values", args |-> <<fixed, initial>>,
                get_errors |-> FALSE]
    /\ result' = "returned"
    /\ returned' = Some(initial_fit_values_loop(compute_parameter_keys(n_sites), n_sites,
                                                fixed, initial))
    /\ UNCHANGED <<mgr_vars, cfg_vars, reg_vars>>

\* The numbers of sites the static method is called with on its own: those
\* for which 0.5 / n_sites, or the 0.15 that is smaller, is a whole number of
\* units of 1e-5, so that the default is represented exactly.
SiteCounts == {1, 2, 3, 4, 5, 8, 10}

\* FitManager.compute_initial_fit_values(datapattern, n_sites=n), the static
\* method called without overrides.
compute_initial_fit_values_defaults(n) ==
    /\ pc = "idle"
    /\ call' = [op |-> "compute_initial_fit_values_defaults", args |-> <<n>>,
                get_errors |-> FALSE]
    /\ result' = "returned"
    /\ returned' = Some(initial_fit_values_loop(compute_parameter_keys(n), n,
                                                EmptyDict, EmptyDict))
    /\ UNCHANGED <<mgr_vars, cfg_vars, reg_vars>>

(***************************************************************************)
(* FitManager: the initial values of the next fit (fitmanager.py,          *)
(* _get_initial_values).  The last fit is described by the settings it was *)
(* built with and by whether its minimization reported success; its        *)
(* results['x'] holds the optimized values of its free parameters in       *)
(* canonical order (fits.py 374-383).                                      *)
(***************************************************************************)

\* The settings this part ranges over: any of PassKeys fixed, total_cts given
\* an initial value or not.
PassKeys == {"dx", "total_cts", "sigma"}
PassFixedDicts == UNION {[ks -> {7}] : ks \in SUBSET PassKeys}
PassInitialDicts == UNION {[ks -> {5}] : ks \in SUBSET {"total_cts"}}

\* The optimized value of the parameter at canonical position j: a whole
\* number j, so that a value tells which parameter it was fitted for.
Optimum(j) == 100000 * j

\* results['x'] of a fit whose parameters were fixed as p_fix says, from
\* canonical position j on.
RECURSIVE results_x(_, _)
results_x(p_fix, j) ==
    IF j > Len(p_fix) THEN << >>
    ELSE (IF p_fix[j] THEN << >> ELSE <<Optimum(j)>>) \o results_x(p_fix, j + 1)

\* The last fits: none, or one built from the settings (fixed, initial) with its
\* success flag.
LastFits(fixed, initial) ==
    {None} \cup {Some([success |-> ok, fixed |-> [k \in ks |-> fixed[k]], initial |-> initial]) :
                    ok \in BOOLEAN, ks \in SUBSET DOMAIN fixed}

\* The loop "change initial values": every key that is not in p_fixed_values
\* takes the next entry of p0_last plus 1e-5; an index past the end of p0_last
\* raises IndexError.
RECURSIVE change_initial_values(_, _, _, _, _)
change_initial_values(keys, fixed, new_initial_values, p0_last, p0_last_i) ==
    IF keys = << >> THEN [raised |-> "none", new_initial_values |-> new_initial_values]
    ELSE IF Head(keys) \in DOMAIN fixed
    THEN change_initial_values(Tail(keys), fixed, new_initial_values, p0_last, p0_last_i)
    ELSE IF p0_last_i > Len(p0_last)
    THEN [raised |-> "IndexError", new_initial_values |-> new_initial_values]
    ELSE change_initial_values(Tail(keys), fixed,
             DictSet(new_initial_values, Head(keys), p0_last[p0_last_i] + 1),
             p0_last, p0_last_i + 1)

\* _get_initial_values(pass_results) of a manager with the settings fixed and
\* initial and the last fit last.
_get_initial_values(pass_results, last, fixed, initial) ==
    /\ pc = "idle"
    /\ call' = [op |-> "_get_initial_values", args |-> <<pass_results, last, fixed, initial>>,
                get_errors |-> FALSE]
    /\ LET keys == compute_parameter_keys(n_sites)
           p0_pass == pass_results /\ last # None /\ last[1].success
           p0_last == results_x(initial_fit_values_loop(keys, n_sites, last[1].fixed,
                                                        last[1].initial).p_fix, 1)
           changed == IF p0_pass THEN change_initial_values(keys, fixed, initial, p0_last, 1)
                      ELSE [raised |-> "none", new_initial_values |-> initial]
       IN IF changed.raised # "none"
          THEN result' = changed.raised /\ returned' = None
          ELSE /\ result' = "returned"
               /\ returned' = Some(initial_fit_values_loop(keys, n_sites, fixed,
                                                           changed.new_initial_values))
    /\ UNCHANGED <<mgr_vars, cfg_vars, reg_vars>>

(***************************************************************************)
(* FitManager: the range check of the data pattern on its masks            *)
(* (fitmanager.py, is_datapattern_inrange).  A mask maps a cell to TRUE    *)
(* when the cell is masked.                                                *)
(***************************************************************************)

GridCells == 1..3
Masks == [GridCells -> BOOLEAN]

\* inrange = not np.any(~data_mask == sim_mask): ~ binds tighter than ==, so a
\* cell counts when "the data cell is unmasked" equals "the sim cell is masked".
inrange(data_mask, sim_mask) ==
    ~(\E c \in GridCells : (~data_mask[c]) = sim_mask[c])

\* is_datapattern_inrange() for a data pattern with data_mask whose
\* background-only synthetic pattern comes with sim_mask.
is_datapattern_inrange_call(data_mask, sim_mask) ==
    /\ pc = "idle"
    /\ call' = [op |-> "is_datapattern_inrange", args |-> <<data_mask, sim_mask>>,
                get_errors |-> FALSE]
    /\ IF dp_pattern = "None"
       THEN result' = "AttributeError" /\ returned' = None
       ELSE result' = "returned" /\ returned' = Some(inrange(data_mask, sim_mask))
    /\ UNCHANGED <<mgr_vars, cfg_vars, reg_vars>>

(***************************************************************************)
(* The minimization settings (fitmanager.py 34-49, 268-301).  A preset     *)
(* keeps the entries in which the presets differ: 'maxiter', 'maxfun',     *)
(* 'maxls', and 'ftol' as its decimal exponent.                            *)
(***************************************************************************)
CostFunctions == {"chi2", "ml"}

fit_options(maxiter, maxfun, ftol, maxls) ==
    [k \in {"maxiter", "maxfun", "ftol", "maxls"} |->
        CASE k = "maxiter" -> maxiter
          [] k = "maxfun" -> maxfun
          [] k = "ftol" -> ftol
          [] OTHER -> maxls]

default_profiles_fit_options ==
    [profile \in {"coarse", "default", "fine"} |->
        [cost_function \in CostFunctions |->
            CASE profile = "coarse" /\ cost_function = "ml" -> fit_options(10, 200, -7, 50)
              [] profile = "coarse" -> fit_options(10, 200, -6, 50)
              [] profile = "default" /\ cost_function = "ml" -> fit_options(20, 200, -9, 100)
              [] profile = "default" -> fit_options(20, 300, -6, 100)
              [] profile = "fine" /\ cost_function = "ml" -> fit_options(60, 1200, -12, 100)
              [] OTHER -> fit_options(60, 1200, -9, 100)]]

\* The arguments tried: profile names, methods and options of several types.
ProfileArgs == {"coarse", "default", "fine", "custom", "rough"}
PyStr(s) == [type |-> "str", v |-> s]
MethodArgs == {PyStr("L-BFGS-B"), PyStr("Powell"), [type |-> "int", v |-> "0"]}
PyDict(items) == [type |-> "dict", items |-> items]
PyNone == [type |-> "NoneType", items |-> EmptyDict]
OptionsArgs ==
    {PyNone, PyDict(EmptyDict), PyDict([k \in {"maxiter"} |-> 5]),
     PyDict([k \in {"maxiter", "ftol"} |-> IF k = "maxiter" THEN 40 ELSE -8]),
     [type |-> "list", items |-> EmptyDict]}

set_minimization_settings(profile, min_method, options_arg) ==
    LET options == IF options_arg.type = "NoneType" THEN EmptyDict ELSE options_arg.items
    IN /\ pc = "idle"
       /\ call' = [op |-> "set_minimization_settings",
                   args |-> <<profile, min_method, options_arg>>, get_errors |-> FALSE]
       /\ IF options_arg.type \notin {"dict", "NoneType"}
          THEN /\ result' = "ValueError"
               /\ UNCHANGED <<_minimization_method, _fit_options_profile, _fit_options>>
          ELSE IF min_method.type # "str"
          THEN /\ result' = "ValueError"
               /\ UNCHANGED <<_minimization_method, _fit_options_profile, _fit_options>>
          ELSE IF profile \notin {"coarse", "default", "fine", "custom"}
          THEN /\ result' = "ValueError"
               /\ UNCHANGED <<_minimization_method, _fit_options_profile, _fit_options>>
          ELSE /\ _minimization_method' = min_method.v
               /\ IF DOMAIN options # {}
                  THEN /\ _fit_options' = options
                       /\ _fit_options_profile' = "custom"
                       /\ result' = "returned"
                  ELSE IF min_method.v = "L-BFGS-B"
                  THEN /\ _fit_options_profile' = profile
                       /\ IF profile \in DOMAIN default_profiles_fit_options
                          THEN /\ _fit_options' =
                                     default_profiles_fit_options[profile][_cost_function]
                               /\ result' = "returned"
                          ELSE /\ result' = "KeyError"
                               /\ UNCHANGED _fit_options
                  ELSE /\ result' = "returned"             \* warning only
                       /\ UNCHANGED <<_fit_options_profile, _fit_options>>
       /\ UNCHANGED <<mgr_vars, reg_vars, returned>>
       /\ UNCHANGED <<p_initial_values, p_fixed_values, _bounds, _scale, _cost_function>>

(***************************************************************************)
(* Initial state: the objects as their constructors leave them.            *)
(***************************************************************************)
__init__(cost_function) ==
    /\ n_sites \in NSites
    /\ dp_pattern = "None"
    /\ min_value = None
    /\ best_fit = 0
    /\ last_fit = 0
    /\ current_fit_obj = None
    /\ fits = << >>
    /\ df_horizontal = << >>
    /\ df_vertical = << >>
    /\ pc = "idle"
    /\ queue = << >>
    /\ call = [op |-> "__init__", args |-> << >>, get_errors |-> FALSE]
    /\ result = "returned"
    /\ passed = << >>
    /\ raised = "none"
    /\ hess = "none"
    /\ attempted = 0
    /\ p_initial_values = EmptyDict
    /\ p_fixed_values = EmptyDict
    /\ _bounds = default_bounds
    /\ _scale = default_scale
    /\ _cost_function = cost_function
    /\ _minimization_method = "L-BFGS-B"
    /\ _fit_options_profile = "default"
    /\ _fit_options = default_profiles_fit_options["default"][cost_function]
    /\ parameters_dict = _init_parameters_dict
    /\ results = None
    /\ minimize_args = None
    /\ evaluation = None
    /\ returned = None

\* The manager built with the default cost function.
Init == __init__("chi2")

\* The manager built with either cost function.
InitMin == \E cost_function \in CostFunctions : __init__(cost_function)

Next ==
    \/ \E d \in {"in", "out"} : set_pattern(d)
    \/ \E args \in SeqsOf(CandLists, ArgCounts), get_errors \in BOOLEAN :
          run_fits(args, get_errors)
    \/ \E args \in SeqsOf(SingleArgs, ArgCounts), get_errors \in BOOLEAN :
          run_single_fit(args, get_errors)
    \/ single_fit_build
    \/ single_fit_finish

Spec == Init /\ [][Next]_vars

\* The manager's setters.
NextCfg ==
    \/ \E kwargs \in Kwargs(InitialValues) : set_initial_values(kwargs)
    \/ \E kwargs \in Kwargs(InitialValues) : set_fixed_values(kwargs)
    \/ \E kwargs \in Kwargs(BoundsValues) : set_bounds(kwargs)
    \/ \E kwargs \in Kwargs(ScaleValues) : set_step_modifier(kwargs)

SpecCfg == Init /\ [][NextCfg]_vars

\* The registry's operations.
NextReg ==
    \/ \E kw \in OneKeyword(RegInicialValues) : set_inicial_values(kw)
    \/ \E kw \in OneKeyword(RegScaleValues) : set_scale_values(kw)
    \/ \E fix \in [ParameterSet -> BOOLEAN] : fix_parameters(fix)
    \/ \E p1_n, p2_n, p3_n \in SelectablePatterns : set_patterns_to_fit(p1_n, p2_n, p3_n)

SpecReg == Init /\ [][NextReg]_vars

\* The fit object as _build_fits_obj and _single_fit use one: its registry is
\* configured while it has no results, and then it is minimized.
NextFit ==
    \/ results = None /\ \E kw \in OneKeyword(RegInicialValues) : set_inicial_values(kw)
    \/ results = None /\ \E kw \in OneKeyword(RegScaleValues) : set_scale_values(kw)
    \/ results = None /\ \E fix \in [ParameterSet -> BOOLEAN] : fix_parameters(fix)
    \/ results = None /\ \E p1_n, p2_n \in SelectablePatterns :
                             set_patterns_to_fit(p1_n, p2_n, None)
    \/ minimize_chi2
    \/ maximize_likelyhood
    \/ \E params \in ParamVectors(Len(_get_p0_scale)) : log_likelihood_call(params, TRUE)

SpecFit == Init /\ [][NextFit]_vars

\* The cost functions on a configured registry.
NextEval ==
    \/ \E kw \in OneKeyword(RegScaleValues) : set_scale_values(kw)
    \/ \E fix \in [ParameterSet -> BOOLEAN] : fix_parameters(fix)
    \/ \E p1_n, p2_n \in SelectablePatterns : set_patterns_to_fit(p1_n, p2_n, None)
    \/ \E params \in ParamVectors(Len(_get_p0_scale)), enable_scale \in BOOLEAN :
          chi_square_call(params, enable_scale)
    \/ \E params \in ParamVectors(Len(_get_p0_scale)), enable_scale \in BOOLEAN :
          log_likelihood_call(params, enable_scale)

SpecEval == Init /\ [][NextEval]_vars

\* The manager's helpers that compute a value from its state.
NextHelp ==
    \/ \E d \in {"in", "out"} : set_pattern(d)
    \/ \E normalization \in Normalizations, pattern_type \in PatternTypes, fit_obj \in FitObjs :
          _get_sim_normalization_factor(normalization, pattern_type, fit_obj)
    \/ \E fixed \in FixedDicts, initial \in InitialDicts :
          compute_initial_fit_values(fixed, initial)
    \/ \E n \in SiteCounts : compute_initial_fit_values_defaults(n)
    \/ \E data_mask \in Masks, sim_mask \in Masks :
          is_datapattern_inrange_call(data_mask, sim_mask)
SpecHelp == Init /\ [][NextHelp]_vars

\* Sweeps of a manager with stop requests arriving at any moment.
NextStop ==
    \/ set_pattern("in")
    \/ \E args \in SeqsOf({<<PyInt(1)>>, <<PyInt(2), PyInt(1)>>}, 1..2) : run_fits(args, FALSE)
    \/ single_fit_build
    \/ single_fit_finish
    \/ stop_current_fit
SpecStop == Init /\ [][NextStop]_vars

\* The initial values of the next fit, for every setting and last fit.
\* The minimization settings of a manager built for either cost function.
NextMin ==
    \E profile \in ProfileArgs, min_method \in MethodArgs, options \in OptionsArgs :
       set_minimization_settings(profile, min_method, options)

SpecMin == InitMin /\ [][NextMin]_vars

NextPass ==
    \E pass_results \in BOOLEAN, fixed \in PassFixedDicts, initial \in PassInitialDicts :
       \E last \in LastFits(fixed, initial) :
          _get_initial_values(pass_results, last, fixed, initial)
SpecPass == Init /\ [][NextPass]_vars

(***************************************************************************)
(* Properties of the orchestrator (checked under Spec).                    *)
(***************************************************************************)

\* The number of selections of the cartesian product of the lists from slot j on.
RECURSIVE ProductSize(_, _)
ProductSize(lists, j) ==
    IF j > Len(lists) THEN 1 ELSE Len(lists[j]) * ProductSize(lists, j + 1)

\* The cartesian product in row-major order, first slot slowest: its k-th tuple
\* takes from list j the element of index ((k-1) div (size of the later slots))
\* mod (length of list j).
RowMajor(lists) ==
    [k \in 1..ProductSize(lists, 1) |->
        [j \in 1..Len(lists) |->
            lists[j][(((k - 1) \div ProductSize(lists, j + 1)) % Len(lists[j])) + 1]]]

\* run_fits was given one list of integer indices per site slot.
IndexListsPerSlot(args) ==
    /\ Len(args) = n_sites
    /\ \A j \in 1..Len(args) : \A i \in 1..Len(args[j]) : IsInt(args[j][i])

\* run_single_fit was given one integer index per site slot.
IndexPerSlot(args) ==
    /\ Len(args) = n_sites
    /\ \A j \in 1..Len(args) : IsInt(unwrap(args[j]))

RunFitsDone == pc = "idle" /\ call.op = "run_fits" /\ dp_pattern # "None"
RunSingleFitDone == pc = "idle" /\ call.op = "run_single_fit" /\ dp_pattern # "None"

\* C1: a run_fits call given one candidate index list per site slot has, when it
\* ends, passed to _single_fit every tuple of the cartesian product of the lists,
\* each exactly once, in row-major order.
C1_EveryTupleInRowMajorOrder ==
    (RunFitsDone /\ IndexListsPerSlot(call.args)) => passed = RowMajor(call.args)

\* C2: best_fit is the fit of globally minimal cost among the combinations
\* processed so far when their costs are distinct, min_value is that cost,
\* last_fit is the fit of the most recently processed combination whatever its
\* cost, and best_fit is replaced only by a fit of strictly lower cost.
DistinctCosts ==
    \A i, j \in 1..Len(fits) : i # j => fits[i].fun # fits[j].fun
BestLastInv ==
    fits # << >> =>
        /\ last_fit = Len(fits)
        /\ best_fit \in 1..Len(fits)
        /\ min_value = Some(fits[best_fit].fun)
        /\ DistinctCosts => \A j \in 1..Len(fits) : fits[best_fit].fun <= fits[j].fun
BestOnlyOnStrictImprovement ==
    (best_fit' # best_fit /\ best_fit # 0) =>
        /\ best_fit' = Len(fits')
        /\ fits'[best_fit'].fun < fits[best_fit].fun
C2_BestAndLast == [](BestLastInv) /\ [][BestOnlyOnStrictImprovement]_vars

\* C2's case: a sweep has ended in which a later combination cost more than an
\* earlier one, so that the best fit is not the last one.
C2_Witness ==
    /\ RunFitsDone
    /\ Len(passed) >= 2
    /\ Len(fits) >= 2
    /\ DistinctCosts
    /\ best_fit # last_fit

\* C3: when one combination of a run_fits sweep raised, every combination of the
\* enumeration has still been passed to _single_fit by the end of the call.
C3_SweepContinuesAfterFailure ==
    (RunFitsDone /\ IndexListsPerSlot(call.args) /\ raised # "none")
        => passed = recursive_call(call.args, << >>)

\* C4: between calls, the horizontal table has one row per combination attempted
\* and the vertical table n_sites rows per combination attempted.
C4_RowsPerAttempt ==
    pc = "idle" =>
        /\ Len(df_horizontal) = attempted
        /\ Len(df_vertical) = attempted * n_sites

\* C5: with the data pattern out of the simulated range, run_fits and
\* run_single_fit do not raise for it and go on to fit what was requested.
C5_OutOfRangeOnlyWarns ==
    /\ (RunFitsDone /\ dp_pattern = "out" /\ IndexListsPerSlot(call.args))
           => (result = "returned" /\ passed # << >>)
    /\ (RunSingleFitDone /\ dp_pattern = "out" /\ IndexPerSlot(call.args))
           => (result = "returned" /\ passed # << >>)

\* C6: a call whose selection has the wrong length or a non-integer index ends
\* with a ValueError for its caller, and no step of it builds a Fit, adds a row or
\* changes best / last.
BadSelection ==
    /\ dp_pattern # "None"
    /\ \/ call.op = "run_single_fit" /\ ~IndexPerSlot(call.args)
       \/ call.op = "run_fits" /\ Len(call.args) >= 1 /\ ~IndexListsPerSlot(call.args)
C6_BadSelectionReported ==
    /\ []((pc = "idle" /\ BadSelection) => result = "ValueError")
    /\ [][BadSelection' =>
            /\ current_fit_obj' = None
            /\ UNCHANGED <<fits, df_horizontal, df_vertical, best_fit, last_fit,
                           min_value>>]_vars

\* C9: when a Hessian of the call could not be inverted, or its inverse had a
\* negative diagonal entry, the call ends with an error for its caller.
C9_HessianFailureReported ==
    (pc = "idle" /\ hess \in {"singular", "negdiag"}) => result = "LinAlgError"

(***************************************************************************)
(* Properties of the manager's setters (checked under SpecCfg).            *)
(***************************************************************************)

UnknownKeys(kwargs) ==
    {kwargs[i][1] : i \in 1..Len(kwargs)} \ KeySet(parameter_keys)

\* C7: a setter call with a keyword that is no parameter key ends with a
\* ValueError and no dict holds that keyword; a set_bounds call with a value
\* that is not a 2-tuple ends with a ValueError.
C7_UnknownKeyIsValueError ==
    call.op \in Setters =>
        /\ UnknownKeys(call.args) # {} => result = "ValueError"
        /\ UnknownKeys(call.args) \cap (DOMAIN p_initial_values \cup DOMAIN p_fixed_values
                                           \cup DOMAIN _bounds \cup DOMAIN _scale) = {}
        /\ (/\ call.op = "set_bounds"
            /\ \E i \in 1..Len(call.args) :
                  call.args[i][2].type # "tuple" \/ Len(call.args[i][2].items) # 2)
               => result = "ValueError"

(***************************************************************************)
(* Properties of the registry (checked under SpecReg).                     *)
(***************************************************************************)

\* C8: a set_scale_values call that gives a scale of zero fails, no scale of
\* zero is stored, and _get_p0 never divides by a zero scale.
C8_ZeroScaleRejected ==
    /\ (call.op = "set_scale_values" /\ \E k \in DOMAIN call.args : call.args[k] = 0)
           => result # "returned"
    /\ \A k \in ParameterSet : parameters_dict[k].scale # 0
    /\ _get_p0.raised = "none"

FreePositions == {j \in 1..Len(_parameters_order) : parameters_dict[_parameters_order[j]].use}
\* The place in a reduced vector of the free parameter at position j.
Rank(j) == Cardinality({i \in FreePositions : i <= j})

ZeroScaleFree ==
    \E j \in FreePositions : parameters_dict[_parameters_order[j]].scale = 0

\* The fix_parameters arguments differ from the registry's flags in key t only.
Toggles(fix, t) ==
    \A k \in ParameterSet : (fix[k] # ~parameters_dict[k].use) <=> (k = t)

LengthChange == Len(_get_p0_scale') - Len(_get_p0_scale)

\* C10: _get_p0_scale lists the scales of the free parameters in canonical
\* order; _get_p0 lists their p0 / scale in that order, or raises
\* ZeroDivisionError when a free parameter has scale zero; a fix_parameters call
\* that toggles one parameter changes the length by exactly one when the
\* parameter is no fraction or its site is selected, and by nothing otherwise.
ReducedVectorsInv ==
    /\ Len(_get_p0_scale) = Cardinality(FreePositions)
    /\ \A j \in FreePositions :
           _get_p0_scale[Rank(j)] = parameters_dict[_parameters_order[j]].scale
    /\ IF ZeroScaleFree THEN _get_p0.raised = "ZeroDivisionError"
       ELSE /\ _get_p0.raised = "none"
            /\ Len(_get_p0.value) = Cardinality(FreePositions)
            /\ \A j \in FreePositions :
                   LET entry == parameters_dict[_parameters_order[j]]
                   IN _get_p0.value[Rank(j)] * entry.scale = entry.p0[1]
ToggleChangesLength ==
    \A t \in ParameterSet :
        (call'.op = "fix_parameters" /\ Toggles(call'.args, t)) =>
            IF t \in FractionSet /\ ~parameters_dict[pattern_of(t)].use
            THEN LengthChange = 0
            ELSE LengthChange \in {-1, 1}
C10_ReducedVectors == [](ReducedVectorsInv) /\ [][ToggleChangesLength]_vars

\* C10's case: after a fix_parameters call a fraction of a selected site and a
\* parameter before it are fixed while a later fraction is free.
C10_Witness ==
    /\ call.op = "fix_parameters"
    /\ parameters_dict["pattern_1"].use
    /\ ~parameters_dict["f_p1"].use
    /\ parameters_dict["f_p2"].use
    /\ ~parameters_dict["dx"].use
    /\ ~ZeroScaleFree
    /\ Len(_get_p0.value) = 5

\* C10 as stated: the vectors the two operations return have the length of the
\* number of free parameters, and toggling any one parameter changes it by
\* exactly one.
C10_AnyToggleChangesLength ==
    /\ [](/\ Len(_get_p0_scale) = Cardinality(FreePositions)
          /\ _get_p0.raised = "none" => Len(_get_p0.value) = Cardinality(FreePositions))
    /\ [][\A t \in ParameterSet :
            (call'.op = "fix_parameters" /\ Toggles(call'.args, t))
                => LengthChange \in {-1, 1}]_vars

\* C11: a fraction is free only if its site is selected, and a fix_parameters
\* call that asks for the fraction of an unselected site to be free leaves it
\* not free.
FractionFreeOnlyIfSelected ==
    \A f \in FractionSet : parameters_dict[f].use => parameters_dict[pattern_of(f)].use
UnfixUnselectedKeepsFixed ==
    \A f \in FractionSet :
        (/\ call'.op = "fix_parameters"
         /\ ~call'.args[f]
         /\ ~parameters_dict[pattern_of(f)].use) => ~parameters_dict'[f].use
C11_FractionFreeOnlyIfSelected ==
    [](FractionFreeOnlyIfSelected) /\ [][UnfixUnselectedKeepsFixed]_vars

\* C11's case: fix_parameters was asked to free the fraction of site 1, which
\* is not selected, while site 2 is selected and its fraction free.
C11_Witness ==
    /\ call.op = "fix_parameters"
    /\ ~call.args["f_p1"]
    /\ ~parameters_dict["pattern_1"].use
    /\ ~parameters_dict["f_p1"].use
    /\ parameters_dict["pattern_2"].use
    /\ parameters_dict["f_p2"].use

(***************************************************************************)
(* Properties of the minimizers (checked under SpecFit).                   *)
(***************************************************************************)

MinimizerReturned ==
    /\ call.op \in {"minimize_chi2", "maximize_likelyhood"}
    /\ result = "returned"

\* C12: after minimize_chi2 or maximize_likelyhood returns, the value of every
\* fixed parameter is its p0, and the value of the free parameter at canonical
\* position j is the coordinate op.minimize returned for it times its scale.
C12_FittedValuesWrittenBack ==
    MinimizerReturned =>
        \A j \in 1..Len(_parameters_order) :
            LET entry == parameters_dict[_parameters_order[j]]
            IN IF j \in FreePositions
               THEN entry.value = Some(minimize_args[1].x[Rank(j)] * entry.scale)
               ELSE entry.value = entry.p0

\* C12's case: a minimizer returned a point other than its start for a registry
\* in which dx is fixed at a configured value and a free fraction has scale 2.
C12_Witness ==
    /\ MinimizerReturned
    /\ ~parameters_dict["dx"].use
    /\ parameters_dict["dx"].p0 = Some(16)
    /\ parameters_dict["f_p1"].use
    /\ parameters_dict["f_p1"].scale = 2
    /\ minimize_args[1].x # minimize_args[1].p0

\* C13: after maximize_likelyhood total_cts is not free, whatever its flag was
\* before, and the start vector and the bounds handed to op.minimize have one
\* entry for each free parameter other than total_cts and none for total_cts;
\* log_likelihood_call hands total_events = 1 to the pattern generator.
FreeButTotalCts ==
    {j \in 1..Len(_parameters_order) :
        /\ _parameters_order[j] # "total_cts"
        /\ parameters_dict[_parameters_order[j]].use}
C13_TotalCtsNeverFreeInML ==
    /\ call.op = "log_likelihood_call" => evaluation[1].make_pattern.total_events = 1
    /\ call.op = "maximize_likelyhood" =>
        /\ ~parameters_dict["total_cts"].use
        /\ result = "returned" =>
              /\ minimize_args[1].fun = "log_likelihood_call"
              /\ Len(minimize_args[1].p0) = Cardinality(FreeButTotalCts)
              /\ Len(minimize_args[1].bnds) = Cardinality(FreeButTotalCts)
              /\ \A j \in FreeButTotalCts :
                    LET entry == parameters_dict[_parameters_order[j]]
                        di == Cardinality({i \in FreeButTotalCts : i <= j})
                    IN /\ minimize_args[1].p0[di] * entry.scale = entry.p0[1]
                       /\ minimize_args[1].bnds[di] = entry.bounds
              /\ results[1].x # << >> => Len(results[1].x) = Cardinality(FreeButTotalCts)

\* C13's case: maximize_likelyhood returned for a registry with a parameter
\* before total_cts fixed and parameters after it free.
C13_Witness ==
    /\ call.op = "maximize_likelyhood"
    /\ result = "returned"
    /\ parameters_dict["sigma"].use
    /\ parameters_dict["f_p2"].use
    /\ ~parameters_dict["dx"].use

(***************************************************************************)
(* Properties of the vertical result table (checked under Spec).           *)
(***************************************************************************)

\* C15: every row of the vertical table carries the shared columns of its
\* combination: row r belongs to combination (r - 1) \div n_sites + 1, whose
\* cost value is the one of that combination's horizontal row.
C15_SharedColumnsOnEveryRow ==
    \A r \in 1..Len(df_vertical) :
        df_vertical[r].value = df_horizontal[((r - 1) \div n_sites) + 1].value

(***************************************************************************)
(* Properties of the manager's helpers (checked under SpecHelp).           *)
(***************************************************************************)

NormalizationCall == call.op = "_get_sim_normalization_factor" /\ dp_pattern # "None"
KnownNormalization == call.args[1] \in {None, Some("counts"), Some("yield"), Some("probability")}

\* f is the quotient a / b as numpy computes it.
IsQuotient(f, a, b) ==
    IF b = 0 THEN f.kind = (IF a = 0 THEN "nan" ELSE "inf")
    ELSE f.kind = "finite" /\ f.den > 0 /\ f.num * b = a * f.den

\* C16 as stated: for each of the four normalizations and each of the three
\* sources _get_sim_normalization_factor returns a factor, never None.
C16_AlwaysDefinedFactor ==
    (NormalizationCall /\ KnownNormalization)
        => result = "returned" /\ returned # None /\ returned[1].norm_factor # None

\* C16, amended: 'yield' without a fit object and any unknown normalization
\* raise ValueError; every other call returns a factor that is not None: 1 for
\* None; for 'counts' 1 (chi2, data) or the total counts (ml); for 'yield' the
\* total yield over the total counts (chi2, data) or the total yield (ml); for
\* 'probability' 1 over the total counts (chi2, data) or 1 (ml).
C16_NormalizationFactor ==
    NormalizationCall =>
        LET normalization == call.args[1]
            ml == call.args[2] = "ml"
            fit_obj == call.args[3]
        IN IF ~KnownNormalization \/ (normalization = Some("yield") /\ fit_obj = None)
           THEN result = "ValueError"
           ELSE /\ result = "returned"
                /\ returned[1].norm_factor # None
                /\ LET f == returned[1].norm_factor[1]
                       total_counts == returned[1].total_counts
                       total_yield == returned[1].total_yield
                   IN CASE normalization = None -> IsQuotient(f, 1, 1)
                        [] normalization = Some("counts") ->
                               IsQuotient(f, IF ml THEN total_counts ELSE 1, 1)
                        [] normalization = Some("yield") ->
                               IsQuotient(f, total_yield[1], IF ml THEN 1 ELSE total_counts)
                        [] normalization = Some("probability") ->
                               IsQuotient(f, 1, IF ml THEN 1 ELSE total_counts)

\* C16's case: 'yield' for the chi-square source with a fit object given,
\* returning 2 / 4 as one half.
C16_Witness ==
    /\ NormalizationCall /\ result = "returned"
    /\ call.args = <<Some("yield"), "chi2", Some("Fit")>>
    /\ returned[1].total_yield = Some(2) /\ returned[1].total_counts = 4
    /\ returned[1].norm_factor = Some([kind |-> "finite", num |-> 1, den |-> 2])

InitialFitValuesCall == call.op = "compute_initial_fit_values" /\ result = "returned"
CanonicalOrder == <<"dx", "dy", "phi", "total_cts", "sigma", "f_p1", "f_p2", "f_p3">>

\* C17: compute_initial_fit_values returns two tuples of length 5 + n_sites in
\* canonical key order; a key of p_fixed_values gets that value and fixed, also
\* when p_initial_values has it too; a key of p_initial_values only gets that
\* value and free; any other key gets the default, total_cts and sigma fixed,
\* dx, dy, phi and the fractions free.
C17_InitialValuePrecedence ==
    InitialFitValuesCall =>
        LET fixed == call.args[1]
            initial == call.args[2]
            p0 == returned[1].p0
            p_fix == returned[1].p_fix
        IN /\ Len(p0) = 5 + n_sites
           /\ Len(p_fix) = 5 + n_sites
           /\ \A i \in 1..(5 + n_sites) :
                 LET key == CanonicalOrder[i]
                 IN IF key \in DOMAIN fixed THEN p0[i] = fixed[key] /\ p_fix[i]
                    ELSE IF key \in DOMAIN initial THEN p0[i] = initial[key] /\ ~p_fix[i]
                    ELSE /\ p_fix[i] = (key \in {"total_cts", "sigma"})
                         /\ p0[i] = CASE i = 1 -> datapattern.center[1]
                                      [] i = 2 -> datapattern.center[2]
                                      [] i = 3 -> datapattern.angle
                                      [] i = 4 -> datapattern.counts
                                      [] i = 5 -> 10000
                                      [] OTHER -> 15000

\* C17's case: two sites, dx both fixed and given an initial value, f_p1 given
\* an initial value only, the other keys left to the defaults.
C17_Witness ==
    /\ InitialFitValuesCall /\ n_sites = 2
    /\ DOMAIN call.args[1] = {"dx"}
    /\ DOMAIN call.args[2] = {"dx", "f_p1"}
    /\ returned[1].p0 = <<7, 200, 300, 4000, 10000, 5, 15000>>
    /\ returned[1].p_fix = <<TRUE, FALSE, FALSE, TRUE, TRUE, FALSE, FALSE>>

(***************************************************************************)
(* Properties of the cost functions (checked under SpecEval).              *)
(***************************************************************************)

CostCall == call.op \in {"chi_square_call", "log_likelihood_call"}
SelectedSites == {i \in 1..3 : parameters_dict[_pattern_keys[i]].use}

\* C18: chi_square_call and log_likelihood_call rebuild the tuple of all eight
\* parameters from the reduced vector v: the i-th free parameter is v[i] times
\* its scale when scaling is enabled and v[i] otherwise, a fixed parameter is
\* its p0; the fractions handed to the generator are those of the selected
\* sites in site order, after the background 1 - sum, which is not clamped.
C18_FullTupleRebuilt ==
    CostCall =>
        LET v == call.args[1]
            enable_scale == call.args[2]
            params_temp == evaluation[1].params_temp
            made == evaluation[1].make_pattern
        IN /\ Len(params_temp) = 8
           /\ \A j \in 1..8 :
                 LET entry == parameters_dict[_parameters_order[j]]
                 IN params_temp[j] = IF entry.use
                                     THEN v[Rank(j)] * (IF enable_scale THEN entry.scale ELSE 1)
                                     ELSE entry.p0[1]
           /\ <<made.dx, made.dy, made.phi, made.sigma>> =
                 <<params_temp[1], params_temp[2], params_temp[3], params_temp[5]>>
           /\ Len(made.fractions) = 1 + Cardinality(SelectedSites)
           /\ \A i \in SelectedSites :
                 made.fractions[1 + Cardinality({k \in SelectedSites : k <= i})] =
                     params_temp[5 + i]
           /\ SumSeq(made.fractions) = 8

\* C18's case: scaling enabled with a scale other than one on a free parameter,
\* a fixed parameter, sites 1 and 2 selected with free fractions whose sum
\* exceeds one, so that the background handed over is negative.
C18_Witness ==
    /\ call.op = "chi_square_call" /\ call.args[2]
    /\ \E j \in FreePositions : parameters_dict[_parameters_order[j]].scale > 1
    /\ ~parameters_dict["dx"].use
    /\ SelectedSites = {1, 2}
    /\ parameters_dict["f_p1"].use /\ parameters_dict["f_p2"].use
    /\ evaluation[1].make_pattern.fractions[1] < 0

\* C19: the bounds handed to the minimizer are the configured bounds divided by
\* the parameter's scale, so that the value written back for a free parameter
\* lies within its configured bounds.
C19_FittedValueWithinBounds ==
    MinimizerReturned =>
        \A j \in FreePositions :
            LET entry == parameters_dict[_parameters_order[j]]
                bnd == minimize_args[1].bnds[Rank(j)]
            IN /\ entry.bounds[1] # None =>
                     /\ bnd[1] # None /\ bnd[1][1] * entry.scale = entry.bounds[1][1]
                     /\ entry.value[1] >= entry.bounds[1][1]
               /\ entry.bounds[2] # None =>
                     /\ bnd[2] # None /\ bnd[2][1] * entry.scale = entry.bounds[2][1]
                     /\ entry.value[1] <= entry.bounds[2][1]

PassedCall ==
    /\ call.op = "_get_initial_values"
    /\ call.args[1] /\ call.args[2] # None /\ call.args[2][1].success
\* What compute_initial_fit_values gives for the call's settings as configured.
Configured ==
    initial_fit_values_loop(compute_parameter_keys(n_sites), n_sites, call.args[3], call.args[4])

\* C21: with pass_results and a last fit that reported success,
\* _get_initial_values returns; a parameter of p_fixed_values keeps its fixed
\* value and every other parameter that the last fit optimized starts from its
\* own optimized value plus 1e-5; without pass_results, or without a
\* successful last fit, the configured values are returned.
C21_PassResultsByName ==
    call.op = "_get_initial_values" =>
        /\ result = "returned"
        /\ IF PassedCall
           THEN \A j \in 1..(5 + n_sites) :
                   LET key == CanonicalOrder[j]
                       last_p_fix == initial_fit_values_loop(compute_parameter_keys(n_sites),
                                         n_sites, call.args[2][1].fixed,
                                         call.args[2][1].initial).p_fix
                   IN IF key \in DOMAIN call.args[3] THEN returned[1].p0[j] = call.args[3][key]
                      ELSE ~last_p_fix[j] => returned[1].p0[j] = Optimum(j) + 1
           ELSE returned[1] = Configured

\* C27: pass_results changes no fixed flag: after a successful fit the flags
\* _get_initial_values computes with pass_results are those it computes
\* without, total_cts and sigma staying fixed when they are fixed by default.
C27_PassResultsKeepsFlags ==
    PassedCall => result = "returned" /\ returned[1].p_fix = Configured.p_fix

(***************************************************************************)
(* Properties of the range check (checked under SpecHelp).                 *)
(***************************************************************************)

StopWithoutFitChangesNothing ==
    (current_fit_obj = None /\ call'.op = "stop_current_fit") => UNCHANGED mgr_vars
\* A stop request made while a Fit is current touches that Fit only.
StopTouchesCurrentOnly ==
    (current_fit_obj # None /\ current_fit_obj' # None /\ current_fit_obj' # current_fit_obj)
        => /\ current_fit_obj'[1].sites = current_fit_obj[1].sites
           /\ UNCHANGED <<min_value, best_fit, last_fit, fits, df_horizontal, df_vertical,
                          queue, pc>>
\* The Fit of a combination that starts has no stop request pending.
StartsUnstopped ==
    (current_fit_obj = None /\ current_fit_obj' # None) => ~current_fit_obj'[1].stopped

MinSettingsCallRaises ==
    (call'.op = "set_minimization_settings" /\ result' # "returned")
        => UNCHANGED <<_minimization_method, _fit_options_profile, _fit_options>>
MinSettingsCallReturns ==
    (call'.op = "set_minimization_settings" /\ result' = "returned")
        => \/ /\ call'.args[3].type = "dict"
              /\ DOMAIN call'.args[3].items # {}
              /\ _fit_options_profile' = "custom"
              /\ _fit_options' = call'.args[3].items
           \/ /\ _fit_options_profile' \in DOMAIN default_profiles_fit_options
              /\ _fit_options' = default_profiles_fit_options[_fit_options_profile'][_cost_function']
C24_MinimizationSettingsAllOrNothing ==
    [][MinSettingsCallRaises /\ MinSettingsCallReturns]_vars

\* C25: whenever run_fits or run_single_fit has returned or raised,
\* current_fit_obj is None; it is non-None only while a combination is being
\* processed.
C25_HandleOnlyWhileFitting ==
    /\ result # "running" => current_fit_obj = None
    /\ current_fit_obj # None => pc = "fitting"
C25_Witness ==
    /\ call.op \in {"run_fits", "run_single_fit"}
    /\ result = "returned"
    /\ raised = "LinAlgError"
    /\ Len(passed) >= 1
    /\ current_fit_obj = None

\* C26: in every reachable state min_value is None iff best_fit is None iff
\* last_fit is None; otherwise min_value is the cost recorded in best_fit, is
\* at most the cost of every combination that has a row in the horizontal
\* table, and among fits of that cost best_fit is the earliest.
C26_MinValueIsCostOfBestFit ==
    /\ (min_value = None) <=> (best_fit = 0)
    /\ (best_fit = 0) <=> (last_fit = 0)
    /\ best_fit # 0 =>
          /\ min_value = Some(fits[best_fit].fun)
          /\ \A r \in 1..Len(df_horizontal) : min_value[1] <= df_horizontal[r].value[1]
          /\ Len(df_horizontal) = Len(fits)
          /\ \A j \in 1..Len(fits) : fits[j].fun = fits[best_fit].fun => best_fit <= j
C26_Witness ==
    /\ best_fit # 0
    /\ \E j \in 1..Len(fits) : j > best_fit /\ fits[j].fun = fits[best_fit].fun
    /\ \E r \in 1..Len(df_horizontal) : min_value[1] < df_horizontal[r].value[1]

\* C28: a call to set_initial_values, set_fixed_values, set_bounds or
\* set_step_modifier that fails on one of its keywords leaves all stored
\* settings as they were before the call.
C28_FailedSetterAppliesNothing ==
    [][(call'.op \in Setters /\ result' # "returned")
          => UNCHANGED <<p_initial_values, p_fixed_values, _bounds, _scale>>]_vars

\* C29: in the registry, fixing a fraction and selecting its site commute: when
\* fix_parameters with f_pN requested fixed and set_patterns_to_fit selecting
\* site N follow one another, in either order, f_pN is not free afterwards.
site_of(f) == IF f = "f_p1" THEN 1 ELSE IF f = "f_p2" THEN 2 ELSE 3
FixThenSelect ==
    (call.op = "fix_parameters" /\ call'.op = "set_patterns_to_fit")
        => \A f \in FractionSet :
              (call.args[f] /\ call'.args[site_of(f)] # None) => ~parameters_dict'[f].use
SelectThenFix ==
    (call.op = "set_patterns_to_fit" /\ call'.op = "fix_parameters")
        => \A f \in FractionSet :
              (call'.args[f] /\ call.args[site_of(f)] # None) => ~parameters_dict'[f].use
C29_FixAndSelectCommute == [][FixThenSelect /\ SelectThenFix]_vars

\* C30: for every n_sites >= 1 and no overrides compute_initial_fit_values
\* gives every site fraction the same positive default min(0.15, 0.5 / n_sites),
\* so the fractions sum to at most 0.5 and the background fraction
\* 1 - sum(fractions) is at least 0.5.  Values are in units of 1e-5.
DefaultsCall == call.op = "compute_initial_fit_values_defaults" /\ result = "returned"
site_fractions(n, p0) == [i \in 1..n |-> p0[5 + i]]
C30_DefaultFractionsLeaveHalfBackground ==
    DefaultsCall =>
        LET n == call.args[1]
            p0 == returned[1].p0
            fractions == site_fractions(n, p0)
        IN /\ Len(p0) = 5 + n
           /\ \A i \in 1..n :
                 /\ fractions[i] > 0
                 /\ \/ fractions[i] = 15000 /\ 15000 * n <= 50000
                    \/ fractions[i] * n = 50000 /\ fractions[i] <= 15000
                 /\ ~returned[1].p_fix[5 + i]
           /\ SumSeq(fractions) <= 50000
           /\ 100000 - SumSeq(fractions) >= 50000
C30_Witness ==
    /\ DefaultsCall
    /\ call.args[1] = 8
    /\ site_fractions(8, returned[1].p0) = [i \in 1..8 |-> 6250]

====
